---- MODULE Spec2Model ----
(***************************************************************************)
(* A model of the minimal KVM monitor of src/src/main.rs and               *)
(* src/src/kvm.rs.  main() is one sequential program: pc is its position,  *)
(* scope the stack of live locals that own an OS resource (dropped in      *)
(* reverse order of declaration when main returns, by `?` or at its end).  *)
(* The kernel and the guest are the environment: every ioctl/mmap result   *)
(* is drawn from a small set.                                              *)
(***************************************************************************)
EXTENDS Integers, Sequences, FiniteSets, TLC

----------------------------------------------------------------------------
(* Bounds of the model *)

\* run() calls after which the model stops following an endless guest
MaxRuns == 12
\* bytes at the start of the guest memory block the model keeps (the rest of
\* the 4096 bytes are never written and stay zero)
MemWindow == 10
\* Io exits a guest produces in one execution ("any" guest)
MaxIo == 3

----------------------------------------------------------------------------
(* kvm_bindings.rs *)

KVM_API_VERSION == 12

KVM_EXIT_UNKNOWN == 0
KVM_EXIT_IO == 2
KVM_EXIT_HLT == 5
KVM_EXIT_SHUTDOWN == 8
KVM_EXIT_FAIL_ENTRY == 9
KVM_EXIT_INTERNAL_ERROR == 17

KVM_EXIT_IO_IN == 0
KVM_EXIT_IO_OUT == 1

----------------------------------------------------------------------------
(* values of main.rs *)

\* let mem_size = 0x1000
mem_size == 4096
\* guest_phys_addr: 0x1000
guest_phys_addr == 4096
\* regs.rip = 0x1000; regs.rsp = 0x2000; regs.rflags = 0x2
initial_rip == 4096
initial_rsp == 8192
initial_rflags == 2
\* sregs.cs.limit = 0xffff
cs_limit == 65535
\* if exit_count > 10
GuardBound == 10

\* code[0] .. code[9]
GuestCode == <<186, 0, 138, 176, 72, 238, 176, 105, 238, 244>>

----------------------------------------------------------------------------
(* State *)

VARIABLES
  pc,             \* position of main()
  scope,          \* live locals of main() that implement Drop, in order of declaration
  result,         \* what main() returned
  acquired,       \* per OS resource: how often it was acquired (open, ioctl, mmap)
  released,       \* per OS resource: how often it was released (close, munmap)
  api_version,    \* Kvm::new: <<v>> once KVM_GET_API_VERSION returned v
  code,           \* the first MemWindow bytes of the guest memory block
  slots,          \* kernel: the memory regions registered with the VM
  vcpu_mmap_size, \* main: let vcpu_mmap_size
  run,            \* main: let run = VcpuRun { ptr, size }; size is kept here
  run_mapping,    \* kernel: the length given to mmap and to munmap of the control page
  sregs,          \* main: let mut sregs
  regs,           \* main: let mut regs
  vcpu_sregs,     \* kernel: the vCPU's special registers
  vcpu_regs,      \* kernel: the vCPU's general registers
  exit_count,     \* main: let mut exit_count
  kvm_run,        \* the control page: exit_reason and the exit_data union
  state,          \* the arm of the match that the last exit took
  runs,           \* KVM_RUN ioctls issued
  run_ok,         \* KVM_RUN ioctls that returned >= 0
  exits,          \* the kvm_run.exit_reason values main() read, in order
  guest           \* "scenario": the guest executes the loaded code; "any": any exit

vars == <<pc, scope, result, acquired, released, api_version, code, slots,
          vcpu_mmap_size, run, run_mapping, sregs, regs, vcpu_sregs, vcpu_regs, exit_count,
          kvm_run, state, runs, run_ok, exits, guest>>

setupVars == <<code, slots, vcpu_mmap_size, run, sregs, regs, vcpu_sregs, vcpu_regs>>
loopVars == <<exit_count, kvm_run, state, runs, run_ok, exits>>

Resources == {"kvm_fd", "vm_fd", "vcpu_fd", "guest_memory", "control_page"}

\* Result<(), String>
Ok == [kind |-> "Ok", msg |-> ""]
Err(msg) == [kind |-> "Err", msg |-> msg]
NotReturned == [kind |-> "none", msg |-> ""]

\* KvmSregs::default() / KvmRegs::default(), the fields main() touches or the
\* guest code uses
DefaultSregs == [cs_base |-> 0, cs_limit |-> 0, cs_selector |-> 0]
DefaultRegs == [rip |-> 0, rax |-> 0, rbx |-> 0, rcx |-> 0, rdx |-> 0, rsi |-> 0,
                rdi |-> 0, rsp |-> 0, rbp |-> 0, rflags |-> 0]

\* The state of a vCPU just created: a code segment with a non-zero base
\* (selector 0xf000, base 0xf0000) as after reset, or all zero; main()
\* overwrites every field kept here before the first run
ResetSregs == {[cs_base |-> 983040, cs_limit |-> 65535, cs_selector |-> 61440],
               DefaultSregs}
ResetRegs == {[DefaultRegs EXCEPT !.rip = 65520, !.rdx = 1536, !.rflags = 2]}

\* An empty control page (mapped, no exit reported yet)
NoExitData == [kind |-> "padding"]
EmptyRun == [exit_reason |-> KVM_EXIT_UNKNOWN, exit_data |-> NoExitData]

ZeroBytes == [i \in 1..MemWindow |-> 0]

Init ==
  /\ pc = "Kvm_new"
  /\ scope = <<>>
  /\ result = NotReturned
  /\ acquired = [r \in Resources |-> 0]
  /\ released = [r \in Resources |-> 0]
  /\ api_version = <<>>
  /\ code = ZeroBytes
  /\ slots = {}
  /\ vcpu_mmap_size = 0
  /\ run = [size |-> 0]
  /\ run_mapping = [mmap_len |-> 0, munmap_len |-> 0]
  /\ sregs = DefaultSregs
  /\ regs = DefaultRegs
  /\ vcpu_sregs = DefaultSregs
  /\ vcpu_regs = DefaultRegs
  /\ exit_count = 0
  /\ kvm_run = EmptyRun
  /\ state = "Running"
  /\ runs = 0
  /\ run_ok = 0
  /\ exits = <<>>
  /\ guest \in {"scenario", "any"}

----------------------------------------------------------------------------
(* OS resources *)

Acquire(r) == [acquired EXCEPT ![r] = @ + 1]
Release(r) == [released EXCEPT ![r] = @ + 1]
IsOpen(r) == acquired[r] > released[r]

\* `?` on an Err: main returns it; its live locals are dropped on the way out
Fail(msg) ==
  /\ result' = Err(msg)
  /\ pc' = "unwind"

----------------------------------------------------------------------------
(* Setup: main.rs steps 1 to 9, each with the kvm.rs method it calls *)

\* what the kernel may answer
VersionResults == {KVM_API_VERSION, KVM_API_VERSION - 1, KVM_API_VERSION + 1, -1}
MmapSizes == {4096, 12288}

\* a check that lets a newer API through
VersionMismatch_OlderOnly(v) == v < KVM_API_VERSION

\* kvm.rs: if api_version != KVM_API_VERSION
VersionMismatch(v) == v # KVM_API_VERSION

\* a Kvm::new whose mismatch branch closes the fd and then falls through to
\* Ok(Kvm { fd })
Kvm_new_CloseWithoutReturn ==
  /\ pc = "Kvm_new"
  /\ \E fd_ok \in BOOLEAN, v \in VersionResults :
       IF ~fd_ok
         THEN /\ Fail("Could not open /dev/kvm")
              /\ UNCHANGED <<scope, acquired, released, api_version>>
         ELSE /\ api_version' = <<v>>
              /\ acquired' = Acquire("kvm_fd")
              /\ released' = IF VersionMismatch(v) THEN Release("kvm_fd") ELSE released
              /\ scope' = Append(scope, "kvm")
              /\ pc' = "create_vm"
              /\ UNCHANGED result
  /\ UNCHANGED <<setupVars, loopVars, guest>>
  /\ UNCHANGED run_mapping

\* Step 1: let kvm = Kvm::new()?
Kvm_new ==
  /\ pc = "Kvm_new"
  /\ \E fd_ok \in BOOLEAN, v \in VersionResults :
       IF ~fd_ok
         THEN /\ Fail("Could not open /dev/kvm")
              /\ UNCHANGED <<scope, acquired, released, api_version>>
         ELSE /\ api_version' = <<v>>
              /\ IF VersionMismatch(v)
                   THEN \* close(fd), and no Kvm is constructed
                        /\ acquired' = Acquire("kvm_fd")
                        /\ released' = Release("kvm_fd")
                        /\ Fail("KVM API version mismatch")
                        /\ UNCHANGED scope
                   ELSE /\ acquired' = Acquire("kvm_fd")
                        /\ scope' = Append(scope, "kvm")
                        /\ pc' = "create_vm"
                        /\ UNCHANGED <<released, result>>
  /\ UNCHANGED <<setupVars, loopVars, guest>>
  /\ UNCHANGED run_mapping

\* Step 2: let vm = kvm.create_vm()?
create_vm ==
  /\ pc = "create_vm"
  /\ \E vm_fd_ok \in BOOLEAN :
       IF ~vm_fd_ok
         THEN /\ Fail("Could not create VM")
              /\ UNCHANGED <<scope, acquired>>
         ELSE /\ acquired' = Acquire("vm_fd")
              /\ scope' = Append(scope, "vm")
              /\ pc' = "GuestMemory_new"
              /\ UNCHANGED result
  /\ UNCHANGED <<released, api_version, setupVars, loopVars, guest>>
  /\ UNCHANGED run_mapping

\* Step 3: let mut guest_memory = GuestMemory::new(mem_size)?
\* (an anonymous mapping: zero-filled)
GuestMemory_new ==
  /\ pc = "GuestMemory_new"
  /\ \E mmap_ok \in BOOLEAN :
       IF ~mmap_ok
         THEN /\ Fail("Could not allocate guest memory")
              /\ UNCHANGED <<scope, acquired, code>>
         ELSE /\ acquired' = Acquire("guest_memory")
              /\ scope' = Append(scope, "guest_memory")
              /\ code' = ZeroBytes
              /\ pc' = "load_code"
              /\ UNCHANGED result
  /\ UNCHANGED <<released, api_version, slots, vcpu_mmap_size, run, sregs, regs,
                 vcpu_sregs, vcpu_regs, loopVars, guest>>
  /\ UNCHANGED run_mapping

\* a step 4 that writes nothing
WriteCode_Nothing(mem) == mem

\* code[i] = b for the bytes of GuestCode, within the window the model keeps
WriteCode(mem) ==
  [i \in 1..MemWindow |-> IF i <= Len(GuestCode) THEN GuestCode[i] ELSE mem[i]]

\* Step 4: code[0] = 0xba; ... code[9] = 0xf4
load_code ==
  /\ pc = "load_code"
  /\ code' = WriteCode(code)
  /\ pc' = "set_user_memory_region"
  /\ UNCHANGED <<scope, result, acquired, released, api_version, slots,
                 vcpu_mmap_size, run, sregs, regs, vcpu_sregs, vcpu_regs,
                 loopVars, guest>>
  /\ UNCHANGED run_mapping

\* the block registered at guest-physical 0 instead of 0x1000
mem_region_AtZero ==
  [slot |-> 0, flags |-> 0, guest_phys_addr |-> 0,
   memory_size |-> mem_size, userspace_addr |-> "guest_memory"]

\* let mem_region = KvmUserspaceMemoryRegion { ... }
mem_region ==
  [slot |-> 0, flags |-> 0, guest_phys_addr |-> guest_phys_addr,
   memory_size |-> mem_size, userspace_addr |-> "guest_memory"]

\* Step 5: vm.set_user_memory_region(&mem_region)?
set_user_memory_region ==
  /\ pc = "set_user_memory_region"
  /\ \E ret_ok \in BOOLEAN :
       IF ~ret_ok
         THEN /\ Fail("Could not set memory region")
              /\ UNCHANGED slots
         ELSE /\ slots' = slots \cup {mem_region}
              /\ pc' = "create_vcpu"
              /\ UNCHANGED result
  /\ UNCHANGED <<scope, acquired, released, api_version, code, vcpu_mmap_size,
                 run, sregs, regs, vcpu_sregs, vcpu_regs, loopVars, guest>>
  /\ UNCHANGED run_mapping

\* Step 6: let vcpu = vm.create_vcpu(0)?
create_vcpu ==
  /\ pc = "create_vcpu"
  /\ \E vcpu_fd_ok \in BOOLEAN, sr \in ResetSregs, r \in ResetRegs :
       IF ~vcpu_fd_ok
         THEN /\ Fail("Could not create VCPU")
              /\ UNCHANGED <<scope, acquired, vcpu_sregs, vcpu_regs>>
         ELSE /\ acquired' = Acquire("vcpu_fd")
              /\ scope' = Append(scope, "vcpu")
              /\ vcpu_sregs' = sr
              /\ vcpu_regs' = r
              /\ pc' = "get_vcpu_mmap_size"
              /\ UNCHANGED result
  /\ UNCHANGED <<released, api_version, code, slots, vcpu_mmap_size, run, sregs,
                 regs, loopVars, guest>>
  /\ UNCHANGED run_mapping

\* Step 7: let vcpu_mmap_size = kvm.get_vcpu_mmap_size()?
get_vcpu_mmap_size ==
  /\ pc = "get_vcpu_mmap_size"
  /\ \E size \in MmapSizes \cup {-1} :
       IF size < 0
         THEN /\ Fail("Could not get VCPU mmap size")
              /\ UNCHANGED vcpu_mmap_size
         ELSE /\ vcpu_mmap_size' = size
              /\ pc' = "map_run"
              /\ UNCHANGED result
  /\ UNCHANGED <<scope, acquired, released, api_version, code, slots, run, sregs,
                 regs, vcpu_sregs, vcpu_regs, loopVars, guest>>
  /\ UNCHANGED run_mapping

\* a mapping of one page, whatever the size asked for
MmapLength_OnePage(size) == 4096

\* Vcpu::map_run(size): libc::mmap(null_mut(), size, ..., self.fd, 0)
MmapLength(size) == size

\* Step 8: let run_ptr = vcpu.map_run(vcpu_mmap_size)?;
\*         let run = VcpuRun::new(run_ptr, vcpu_mmap_size)
map_run ==
  /\ pc = "map_run"
  /\ run_mapping' = [run_mapping EXCEPT !.mmap_len = MmapLength(vcpu_mmap_size)]
  /\ \E mmap_ok \in BOOLEAN :
       IF ~mmap_ok
         THEN /\ Fail("Could not mmap VCPU")
              /\ UNCHANGED <<scope, acquired, run, kvm_run>>
         ELSE /\ acquired' = Acquire("control_page")
              /\ scope' = Append(scope, "run")
              /\ run' = [size |-> vcpu_mmap_size]
              /\ kvm_run' = EmptyRun
              /\ pc' = "get_sregs"
              /\ UNCHANGED result
  /\ UNCHANGED <<released, api_version, code, slots, vcpu_mmap_size, sregs, regs,
                 vcpu_sregs, vcpu_regs, exit_count, state, runs, run_ok, exits,
                 guest>>

\* Step 9a: let mut sregs = vcpu.get_sregs()?;
\*          sregs.cs.base = 0; sregs.cs.limit = 0xffff; sregs.cs.selector = 0
get_sregs ==
  /\ pc = "get_sregs"
  /\ \E ret_ok \in BOOLEAN :
       IF ~ret_ok
         THEN /\ Fail("Could not get special registers")
              /\ UNCHANGED sregs
         ELSE /\ sregs' = [vcpu_sregs EXCEPT !.cs_base = 0, !.cs_limit = cs_limit,
                                             !.cs_selector = 0]
              /\ pc' = "set_sregs"
              /\ UNCHANGED result
  /\ UNCHANGED <<scope, acquired, released, api_version, code, slots,
                 vcpu_mmap_size, run, regs, vcpu_sregs, vcpu_regs, loopVars, guest>>
  /\ UNCHANGED run_mapping

\* Step 9b: vcpu.set_sregs(&sregs)?
set_sregs ==
  /\ pc = "set_sregs"
  /\ \E ret_ok \in BOOLEAN :
       IF ~ret_ok
         THEN /\ Fail("Could not set special registers")
              /\ UNCHANGED vcpu_sregs
         ELSE /\ vcpu_sregs' = sregs
              /\ pc' = "get_regs"
              /\ UNCHANGED result
  /\ UNCHANGED <<scope, acquired, released, api_version, code, slots,
                 vcpu_mmap_size, run, sregs, regs, vcpu_regs, loopVars, guest>>
  /\ UNCHANGED run_mapping

\* Step 9c: let mut regs = vcpu.get_regs()?; regs.rip = 0x1000; ...;
\*          regs.rsp = 0x2000; regs.rbp = 0; regs.rflags = 0x2
get_regs ==
  /\ pc = "get_regs"
  /\ \E ret_ok \in BOOLEAN :
       IF ~ret_ok
         THEN /\ Fail("Could not get registers")
              /\ UNCHANGED regs
         ELSE /\ regs' = [vcpu_regs EXCEPT !.rip = initial_rip, !.rax = 0, !.rbx = 0,
                                           !.rcx = 0, !.rdx = 0, !.rsi = 0, !.rdi = 0,
                                           !.rsp = initial_rsp, !.rbp = 0,
                                           !.rflags = initial_rflags]
              /\ pc' = "set_regs"
              /\ UNCHANGED result
  /\ UNCHANGED <<scope, acquired, released, api_version, code, slots,
                 vcpu_mmap_size, run, sregs, vcpu_sregs, vcpu_regs, loopVars, guest>>
  /\ UNCHANGED run_mapping

\* Step 9d: vcpu.set_regs(&regs)?; then let mut exit_count = 0
set_regs ==
  /\ pc = "set_regs"
  /\ \E ret_ok \in BOOLEAN :
       IF ~ret_ok
         THEN /\ Fail("Could not set registers")
              /\ UNCHANGED <<vcpu_regs, exit_count>>
         ELSE /\ vcpu_regs' = regs
              /\ exit_count' = 0
              /\ pc' = "run"
              /\ UNCHANGED result
  /\ UNCHANGED <<scope, acquired, released, api_version, code, slots,
                 vcpu_mmap_size, run, sregs, regs, vcpu_sregs, kvm_run, state,
                 runs, run_ok, exits, guest>>
  /\ UNCHANGED run_mapping

----------------------------------------------------------------------------
(* The environment of the run loop: what KVM_RUN leaves in the control page *)

HltPage == [exit_reason |-> KVM_EXIT_HLT, exit_data |-> NoExitData]
ShutdownPage == [exit_reason |-> KVM_EXIT_SHUTDOWN, exit_data |-> NoExitData]
IoPage(direction, size, port, count) ==
  [exit_reason |-> KVM_EXIT_IO,
   exit_data |-> [kind |-> "io", direction |-> direction, size |-> size,
                  port |-> port, count |-> count]]
FailEntryPage(reason) ==
  [exit_reason |-> KVM_EXIT_FAIL_ENTRY,
   exit_data |-> [kind |-> "fail_entry", hardware_entry_failure_reason |-> reason]]
InternalPage(suberror, data) ==
  [exit_reason |-> KVM_EXIT_INTERNAL_ERROR,
   exit_data |-> [kind |-> "internal", suberror |-> suberror, ndata |-> Len(data),
                  data |-> data]]
UnknownPage(hw) ==
  [exit_reason |-> KVM_EXIT_UNKNOWN,
   exit_data |-> [kind |-> "hw", hardware_exit_reason |-> hw]]

\* exits that end the guest's run for good, and exits after which it goes on
TerminalPages ==
  {HltPage, ShutdownPage}
    \cup {FailEntryPage(r) : r \in {7, 33}}
    \cup {InternalPage(s, d) : s \in {1, 3}, d \in {<<>>, <<5>>}}
IoPages == {IoPage(d, 1, 1016, 1) : d \in {KVM_EXIT_IO_IN, KVM_EXIT_IO_OUT}}
UnknownPages == {UnknownPage(0)}

\* the number of Io exits main() has seen
IoCount == Cardinality({i \in 1..Len(exits) : exits[i].exit_reason = KVM_EXIT_IO})

\* The byte the guest reads at a guest-physical address: through the slot that
\* covers it, from the block the slot points to; -1 where nothing is mapped
GuestByte(addr) ==
  LET hit == {s \in slots : /\ s.guest_phys_addr <= addr
                            /\ addr < s.guest_phys_addr + s.memory_size}
  IN  IF hit = {} \/ ~IsOpen("guest_memory")
        THEN -1
        ELSE LET s == CHOOSE x \in hit : TRUE
                 off == addr - s.guest_phys_addr
             IN  IF off < MemWindow THEN code[off + 1] ELSE 0

\* The guest executing from r until it traps, for the four instructions of
\* the loaded code (main.rs comments: mov $imm16,%dx; mov $imm8,%al;
\* out %al,(%dx); hlt).  Anything else: page "unmodelled".
RECURSIVE GuestExec(_)
GuestExec(r) ==
  LET ip == vcpu_sregs.cs_base + r.rip
      op == GuestByte(ip)
      b1 == GuestByte(ip + 1)
      b2 == GuestByte(ip + 2)
  IN  CASE op = 186 /\ b1 >= 0 /\ b2 >= 0 ->
             GuestExec([r EXCEPT !.rdx = (@ - (@ % 65536)) + b1 + 256 * b2,
                                 !.rip = @ + 3])
        [] op = 176 /\ b1 >= 0 ->
             GuestExec([r EXCEPT !.rax = (@ - (@ % 256)) + b1, !.rip = @ + 2])
        [] op = 238 ->
             [regs |-> [r EXCEPT !.rip = @ + 1],
              page |-> IoPage(KVM_EXIT_IO_OUT, 1, r.rdx % 65536, 1)]
        [] op = 244 ->
             [regs |-> [r EXCEPT !.rip = @ + 1], page |-> HltPage]
        [] OTHER ->
             [regs |-> r, page |-> [exit_reason |-> -1, exit_data |-> NoExitData]]

\* What one KVM_RUN can do: ret < 0, or ret = 0 with a page written.
AnyOutcomes ==
  {[ret |-> -1, page |-> p, regs |-> vcpu_regs] : p \in {kvm_run} \cup UnknownPages}
    \cup {[ret |-> 0, page |-> p, regs |-> vcpu_regs] :
            p \in TerminalPages \cup UnknownPages
                    \cup (IF IoCount < MaxIo THEN IoPages ELSE {})}

RunOutcomes ==
  LET g == GuestExec(vcpu_regs)
  IN  IF guest = "scenario" /\ g.page.exit_reason >= 0
        THEN {[ret |-> 0, page |-> g.page, regs |-> g.regs]}
        ELSE AnyOutcomes

----------------------------------------------------------------------------
(* Step 10: the run loop, main.rs 100-157 *)

\* a check of the ioctl's result with the wrong sign
RunFailed_Positive(ret) == ret > 0

\* kvm.rs Vcpu::run: if ret < 0 { return Err("KVM_RUN failed") }
RunFailed(ret) == ret < 0

\* vcpu.run(): the ioctl is issued and blocks
vcpu_run ==
  /\ pc = "run"
  /\ runs < MaxRuns
  /\ runs' = runs + 1
  /\ pc' = "in_run"
  /\ UNCHANGED <<scope, result, acquired, released, api_version, setupVars,
                 exit_count, kvm_run, state, run_ok, exits, guest>>
  /\ UNCHANGED run_mapping

\* the ioctl returns; `?` returns from main if it failed
run_return ==
  /\ pc = "in_run"
  /\ \E out \in RunOutcomes :
       /\ kvm_run' = out.page
       /\ vcpu_regs' = out.regs
       /\ run_ok' = IF out.ret >= 0 THEN run_ok + 1 ELSE run_ok
       /\ IF RunFailed(out.ret)
            THEN Fail("KVM_RUN failed")
            ELSE pc' = "dispatch" /\ UNCHANGED result
  /\ UNCHANGED <<scope, acquired, released, api_version, code, slots,
                 vcpu_mmap_size, run, sregs, regs, vcpu_sregs, exit_count, state,
                 runs, exits, guest>>
  /\ UNCHANGED run_mapping

\* what the arm of the match prints from the exit_data union
Printed(page) ==
  CASE page.exit_reason = KVM_EXIT_IO ->
         [port |-> page.exit_data.port, direction |-> page.exit_data.direction,
          size |-> page.exit_data.size, count |-> page.exit_data.count]
    [] page.exit_reason = KVM_EXIT_INTERNAL_ERROR ->
         [suberror |-> page.exit_data.suberror]
    [] page.exit_reason = KVM_EXIT_FAIL_ENTRY ->
         [hardware_entry_failure_reason |->
            page.exit_data.hardware_entry_failure_reason]
    [] OTHER -> [exit_reason |-> page.exit_reason]

\* a guard that trips one exit early
GuardExceeded_AtBound(n) == n >= GuardBound

\* if exit_count > 10
GuardExceeded(n) == n > GuardBound

\* an Io arm that also checks the guard
ExitArm_IoGuarded(reason, n) ==
  CASE reason = KVM_EXIT_HLT -> "Halted"
    [] reason = KVM_EXIT_SHUTDOWN -> "ShutdownRequested"
    [] reason = KVM_EXIT_INTERNAL_ERROR -> "FatalInternalError"
    [] reason = KVM_EXIT_FAIL_ENTRY -> "FatalEntryFailure"
    [] OTHER -> IF n > GuardBound THEN "GuardTripped" ELSE "Continue"

\* the Shutdown arm without its break
ExitArm_ShutdownContinues(reason, n) ==
  CASE reason = KVM_EXIT_HLT -> "Halted"
    [] reason = KVM_EXIT_IO -> "Continue"
    [] reason = KVM_EXIT_SHUTDOWN -> "Continue"
    [] reason = KVM_EXIT_INTERNAL_ERROR -> "FatalInternalError"
    [] reason = KVM_EXIT_FAIL_ENTRY -> "FatalEntryFailure"
    [] OTHER -> IF n > GuardBound THEN "GuardTripped" ELSE "Continue"

\* match kvm_run.exit_reason { ... }: the arm taken, named by the state it
\* stands for; every arm but "Continue" ends in break
ExitArm(reason, n) ==
  CASE reason = KVM_EXIT_HLT -> "Halted"
    [] reason = KVM_EXIT_IO -> "Continue"
    [] reason = KVM_EXIT_SHUTDOWN -> "ShutdownRequested"
    [] reason = KVM_EXIT_INTERNAL_ERROR -> "FatalInternalError"
    [] reason = KVM_EXIT_FAIL_ENTRY -> "FatalEntryFailure"
    [] OTHER -> IF GuardExceeded(n) THEN "GuardTripped" ELSE "Continue"

\* a loop that dispatches again without a run() in between
LoopBack_NoRun == "dispatch"

\* where the loop goes after an arm without break
LoopBack == "run"

\* exit_count += 1; let kvm_run = run.as_ref(); println!; match
dispatch ==
  /\ pc = "dispatch"
  /\ exit_count' = exit_count + 1
  /\ exits' = Append(exits, [exit_reason |-> kvm_run.exit_reason,
                             printed |-> Printed(kvm_run)])
  /\ state' = ExitArm(kvm_run.exit_reason, exit_count')
  /\ pc' = IF state' = "Continue" THEN LoopBack ELSE "epilogue"
  /\ UNCHANGED <<scope, result, acquired, released, api_version, setupVars,
                 kvm_run, runs, run_ok, guest>>
  /\ UNCHANGED run_mapping

\* a main that reports every end of the loop as an error
ReturnValue_ErrAfterLoop(s) == Err("VM stopped")

\* what main returns after the loop: Ok(())
ReturnValue(s) == Ok

\* fn main() -> Result<(), String>: the process status is 0 for Ok(()), and
\* for Err the message is printed and the status is 1
ExitStatus(res) == IF res.kind = "Ok" THEN 0 ELSE 1

\* println!("=== Cleanup ==="); Ok(())
epilogue ==
  /\ pc = "epilogue"
  /\ result' = ReturnValue(state)
  /\ pc' = "unwind"
  /\ UNCHANGED <<scope, acquired, released, api_version, setupVars, loopVars, guest>>
  /\ UNCHANGED run_mapping

----------------------------------------------------------------------------
(* Leaving main: the live locals are dropped, the last declared first *)

\* a VcpuRun whose drop closes the vCPU fd instead of unmapping the page
DropReleases_RunClosesFd(local) ==
  CASE local = "kvm" -> "kvm_fd"
    [] local = "vm" -> "vm_fd"
    [] local = "vcpu" -> "vcpu_fd"
    [] local = "guest_memory" -> "guest_memory"
    [] local = "run" -> "vcpu_fd"

\* impl Drop for Kvm / Vm / Vcpu: close(self.fd);
\* impl Drop for GuestMemory / VcpuRun: munmap(self.ptr, self.size)
DropReleases(local) ==
  CASE local = "kvm" -> "kvm_fd"
    [] local = "vm" -> "vm_fd"
    [] local = "vcpu" -> "vcpu_fd"
    [] local = "guest_memory" -> "guest_memory"
    [] local = "run" -> "control_page"

\* impl Drop for VcpuRun: libc::munmap(self.ptr, self.size)
Munmap(local) ==
  IF DropReleases(local) = "control_page"
    THEN [run_mapping EXCEPT !.munmap_len = run.size]
    ELSE run_mapping

\* locals dropped in the order of their declaration, the first one first
drop_FirstDeclaredFirst ==
  /\ pc = "unwind"
  /\ scope # <<>>
  /\ released' = Release(DropReleases(scope[1]))
  /\ run_mapping' = Munmap(scope[1])
  /\ scope' = SubSeq(scope, 2, Len(scope))
  /\ UNCHANGED <<pc, result, acquired, api_version, setupVars, loopVars, guest>>

drop ==
  /\ pc = "unwind"
  /\ scope # <<>>
  /\ released' = Release(DropReleases(scope[Len(scope)]))
  /\ run_mapping' = Munmap(scope[Len(scope)])
  /\ scope' = SubSeq(scope, 1, Len(scope) - 1)
  /\ UNCHANGED <<pc, result, acquired, api_version, setupVars, loopVars, guest>>

\* main has returned
exit ==
  /\ pc = "unwind"
  /\ scope = <<>>
  /\ pc' = "exited"
  /\ UNCHANGED <<scope, result, acquired, released, api_version, setupVars,
                 loopVars, guest>>
  /\ UNCHANGED run_mapping

----------------------------------------------------------------------------

Next ==
  \/ Kvm_new
  \/ create_vm
  \/ GuestMemory_new
  \/ load_code
  \/ set_user_memory_region
  \/ create_vcpu
  \/ get_vcpu_mmap_size
  \/ map_run
  \/ get_sregs
  \/ set_sregs
  \/ get_regs
  \/ set_regs
  \/ vcpu_run
  \/ run_return
  \/ dispatch
  \/ epilogue
  \/ drop
  \/ exit

Spec == Init /\ [][Next]_vars

----------------------------------------------------------------------------
(* Vocabulary of the properties *)

Reasons == [i \in 1..Len(exits) |-> exits[i].exit_reason]

RecognizedReasons ==
  {KVM_EXIT_HLT, KVM_EXIT_IO, KVM_EXIT_SHUTDOWN, KVM_EXIT_FAIL_ENTRY,
   KVM_EXIT_INTERNAL_ERROR}
TerminalReasons ==
  {KVM_EXIT_HLT, KVM_EXIT_SHUTDOWN, KVM_EXIT_FAIL_ENTRY, KVM_EXIT_INTERNAL_ERROR}

\* the length of the run of unrecognized exits that ends at position n of s
RECURSIVE UnrecognizedRun(_, _)
UnrecognizedRun(s, n) ==
  IF n = 0 \/ s[n] \in RecognizedReasons THEN 0 ELSE 1 + UnrecognizedRun(s, n - 1)

\* the longest run of unrecognized exits in s
LongestUnrecognizedRun(s) ==
  LET lens == {UnrecognizedRun(s, n) : n \in 0..Len(s)}
  IN  CHOOSE m \in lens : \A k \in lens : k <= m

AllUnrecognized(s) == \A i \in 1..Len(s) : s[i] \notin RecognizedReasons

LoopRunning == state \in {"Running", "Continue"}
LoopEnded == pc \in {"epilogue", "unwind", "exited"}

----------------------------------------------------------------------------
(* The loop guard *)

\* C1: the loop stops as GuardTripped only at an unrecognized exit that ends a
\* run of more than GuardBound unrecognized exits in a row; a recognized exit
\* (such as Io) in between starts the count again.
C1_GuardCountsConsecutive ==
  state = "GuardTripped" =>
    UnrecognizedRun(Reasons, Len(exits)) > GuardBound

\* C2: while every exit so far was unrecognized, the loop goes on after each
\* of the first GuardBound exits and stops as GuardTripped at exit
\* GuardBound + 1, so that it never issues more than GuardBound + 1 run() calls.
C2_GuardTripsOnEleventh ==
  AllUnrecognized(Reasons) =>
    /\ runs <= GuardBound + 1
    /\ Len(exits) <= GuardBound + 1
    /\ (Len(exits) <= GuardBound => LoopRunning)
    /\ (Len(exits) = GuardBound + 1 =>
          state = "GuardTripped" /\ LoopEnded /\ runs = GuardBound + 1)

C2_Witness ==
  /\ pc = "exited"
  /\ state = "GuardTripped"
  /\ Len(exits) = GuardBound + 1
  /\ AllUnrecognized(Reasons)
  /\ runs = GuardBound + 1

\* C3: the loop ends in Halted exactly when Hlt was observed, and Io and
\* Unknown exits before it (never more than GuardBound Unknown in a row) do
\* not stop the loop, so that a Hlt that follows them is reached.
C3_HaltedIffHlt ==
  /\ state = "Halted" <=> (exits # <<>> /\ Reasons[Len(exits)] = KVM_EXIT_HLT)
  /\ (/\ \A i \in 1..Len(exits) : Reasons[i] \in {KVM_EXIT_IO, KVM_EXIT_UNKNOWN}
      /\ LongestUnrecognizedRun(Reasons) <= GuardBound)
       => LoopRunning

----------------------------------------------------------------------------
(* Ownership of the OS resources *)

\* C4: no resource is released more often than it was acquired, none is
\* acquired twice, and once main() has returned, on whatever path, every
\* resource that was acquired has been released exactly once.
C4_ReleasedExactlyOnce ==
  \A r \in Resources :
    /\ released[r] <= acquired[r]
    /\ acquired[r] <= 1
    /\ (pc = "exited" => released[r] = acquired[r])

\* all five resources acquired, a failure in the loop, everything released
C4_Witness ==
  /\ pc = "exited"
  /\ result = Err("KVM_RUN failed")
  /\ \A r \in Resources : acquired[r] = 1 /\ released[r] = 1

\* C5: when the version query answers anything but KVM_API_VERSION, Kvm::new
\* fails with the version mismatch, the fd it opened has been closed exactly
\* once, no Kvm object lives, and no VM fd is ever created.
C5_VersionMismatchClosesHandle ==
  (api_version # <<>> /\ api_version[1] # KVM_API_VERSION) =>
    /\ result = Err("KVM API version mismatch")
    /\ pc \in {"unwind", "exited"}
    /\ acquired["kvm_fd"] = 1 /\ released["kvm_fd"] = 1
    /\ scope = <<>>
    /\ acquired["vm_fd"] = 0

\* the query itself failed (-1), and main() has returned
C5_Witness ==
  /\ api_version = <<-1>>
  /\ pc = "exited"
  /\ released["kvm_fd"] = 1

----------------------------------------------------------------------------
(* The fixed scenario *)

\* port 0x8a00
ScenarioIo ==
  [exit_reason |-> KVM_EXIT_IO,
   printed |-> [port |-> 35328, direction |-> KVM_EXIT_IO_OUT, size |-> 1,
                count |-> 1]]
ScenarioExits ==
  <<ScenarioIo, ScenarioIo,
    [exit_reason |-> KVM_EXIT_HLT, printed |-> [exit_reason |-> KVM_EXIT_HLT]]>>

IsPrefix(s, t) == Len(s) <= Len(t) /\ s = SubSeq(t, 1, Len(s))

\* C6: with the guest executing the loaded code from RIP 0x1000 in the block
\* mapped at guest-physical 0x1000, main() sees Io (port 0x8a00, OUT, size 1),
\* the same Io again, then Hlt, and nothing else; it has issued exactly three
\* run() calls when the loop ends, and the loop ends in Halted.
C6_ScenarioTwoIoThenHlt ==
  guest = "scenario" =>
    /\ IsPrefix(exits, ScenarioExits)
    /\ runs <= Len(ScenarioExits)
    /\ (pc = "run" => runs < Len(ScenarioExits))
    /\ (runs > 0 => result.kind # "Err")
    /\ state \in {"Running", "Continue", "Halted"}
    /\ (state = "Halted" <=> exits = ScenarioExits)
    /\ (LoopEnded /\ runs > 0 =>
          state = "Halted" /\ runs = Len(ScenarioExits) /\ exit_count = Len(ScenarioExits))

C6_Witness ==
  /\ guest = "scenario"
  /\ pc = "exited"
  /\ state = "Halted"
  /\ exits = ScenarioExits
  /\ runs = 3

----------------------------------------------------------------------------
(* The run loop *)

\* C7: the control page is read only between a run() that returned without
\* error and the next run(): at a read, every run() issued has returned
\* successfully and this read is the first of the latest one; a run() is
\* issued only when none is outstanding and the exit of the previous one has
\* been decoded.
C7_ReadOnlyBetweenRuns ==
  [][/\ exits' # exits =>
          /\ pc = "dispatch"
          /\ runs = run_ok
          /\ Len(exits') = run_ok
          /\ exits'[Len(exits')].exit_reason = kvm_run.exit_reason
     /\ runs' # runs =>
          /\ pc # "in_run"
          /\ runs = run_ok
          /\ Len(exits) = run_ok
          /\ runs' = runs + 1]_vars

\* a third run() is outstanding after two exits were decoded
C7_Witness ==
  /\ pc = "in_run"
  /\ Len(exits) = 2
  /\ runs = 3

\* C8: a run() that fails ends the loop at once: main() returns the error,
\* the page of the failed call is not read or dispatched, and no run() is
\* issued after it.
C8_RunFailureAborts ==
  /\ runs <= run_ok + 1
  /\ (runs > run_ok /\ pc # "in_run") =>
       /\ result = Err("KVM_RUN failed")
       /\ pc \in {"unwind", "exited"}
       /\ Len(exits) = run_ok
       /\ exit_count = run_ok

\* the third run() failed after two exits
C8_Witness ==
  /\ result = Err("KVM_RUN failed")
  /\ pc = "exited"
  /\ runs = 3
  /\ Len(exits) = 2

\* the state each terminal exit leads to
TerminalState(reason) ==
  CASE reason = KVM_EXIT_HLT -> "Halted"
    [] reason = KVM_EXIT_SHUTDOWN -> "ShutdownRequested"
    [] reason = KVM_EXIT_FAIL_ENTRY -> "FatalEntryFailure"
    [] reason = KVM_EXIT_INTERNAL_ERROR -> "FatalInternalError"

\* C9: Hlt, Shutdown, FailEntry and InternalError each stop the loop at that
\* exit: it is the last exit read, no run() follows it, and the final state
\* is the one of its kind, however many exits came before.
C9_TerminalExitsStop ==
  \A i \in 1..Len(exits) :
    Reasons[i] \in TerminalReasons =>
      /\ i = Len(exits)
      /\ runs = i
      /\ LoopEnded
      /\ state = TerminalState(Reasons[i])

\* a Shutdown after three other exits
C9_Witness ==
  /\ pc = "exited"
  /\ Len(exits) = 4
  /\ Reasons[4] = KVM_EXIT_SHUTDOWN
  /\ state = "ShutdownRequested"

\* C10: when the loop ended on FailEntry or InternalError, what main()
\* returns carries the failure and differs from what it returns after Hlt,
\* Shutdown or a tripped guard.
C10_FailureDetailReturned ==
  (pc = "exited" /\ state \in {"FatalEntryFailure", "FatalInternalError"}) =>
    /\ result.kind = "Err"
    /\ result # ReturnValue("Halted")
    /\ result # ReturnValue("ShutdownRequested")
    /\ result # ReturnValue("GuardTripped")

----------------------------------------------------------------------------
(* Setup failures and the process status *)

\* the steps of the setup that can fail, with the message of each
SetupMessage ==
  <<"Could not open /dev/kvm", "KVM API version mismatch", "Could not create VM",
    "Could not allocate guest memory", "Could not set memory region",
    "Could not create VCPU", "Could not get VCPU mmap size", "Could not mmap VCPU",
    "Could not get special registers", "Could not set special registers",
    "Could not get registers", "Could not set registers">>

\* step k of the setup has been performed successfully
SetupDone(k) ==
  CASE k = 1 -> acquired["kvm_fd"] = 1
    [] k = 2 -> api_version = <<KVM_API_VERSION>>
    [] k = 3 -> acquired["vm_fd"] = 1
    [] k = 4 -> acquired["guest_memory"] = 1
    [] k = 5 -> slots # {}
    [] k = 6 -> acquired["vcpu_fd"] = 1
    [] k = 7 -> vcpu_mmap_size > 0
    [] k = 8 -> acquired["control_page"] = 1
    [] k = 9 -> sregs.cs_limit = cs_limit
    [] k = 10 -> /\ vcpu_sregs.cs_base = 0 /\ vcpu_sregs.cs_limit = cs_limit
                 /\ vcpu_sregs.cs_selector = 0
    [] k = 11 -> regs.rip = initial_rip
    [] k = 12 -> vcpu_regs.rip = initial_rip

\* C11: a setup step that fails ends the process with its own message and a
\* non-zero status, with the steps before it done and neither the failed
\* step, nor a later one, nor a run() performed; main() never stops before
\* the first run() for another reason; and after Halted or ShutdownRequested
\* the status is zero.
C11_SetupFailureStatus ==
  /\ \A k \in 1..Len(SetupMessage) :
       /\ SetupMessage[k] # ""
       /\ \A j \in 1..Len(SetupMessage) : j # k => SetupMessage[j] # SetupMessage[k]
       /\ result = Err(SetupMessage[k]) =>
            /\ pc \in {"unwind", "exited"}
            /\ ExitStatus(result) # 0
            /\ runs = 0
            /\ \A j \in 1..Len(SetupMessage) : SetupDone(j) <=> j < k
  /\ (pc \in {"unwind", "exited"} /\ runs = 0) =>
       \E k \in 1..Len(SetupMessage) : result = Err(SetupMessage[k])
  /\ (pc = "exited" /\ state \in {"Halted", "ShutdownRequested"}) =>
       ExitStatus(result) = 0

\* the creation of the vCPU failed, and main() has returned
C11_Witness ==
  /\ pc = "exited"
  /\ result = Err("Could not create VCPU")
  /\ ExitStatus(result) = 1
  /\ slots # {}
  /\ acquired["vcpu_fd"] = 0

----------------------------------------------------------------------------
(* The order of the releases *)

\* C12: where the control page was mapped, it is unmapped no later than the
\* vCPU fd is closed.
C12_PageUnmappedBeforeVcpuClosed ==
  (acquired["control_page"] = 1 /\ released["vcpu_fd"] >= 1) =>
    released["control_page"] = 1

\* the page is already unmapped and the vCPU fd still open
C12_Witness ==
  /\ pc = "unwind"
  /\ released["control_page"] = 1
  /\ IsOpen("vcpu_fd")

\* C13: once the region is registered, the guest memory block stays mapped
\* for as long as the VM that holds the slot is open.
C13_MemoryMappedWhileVmOpen ==
  (slots # {} /\ IsOpen("vm_fd")) => IsOpen("guest_memory")

\* C19: the vCPU fd is closed before the VM fd, and the VM fd before the
\* subsystem fd.
C19_DerivedHandlesClosedFirst ==
  /\ released["vm_fd"] >= 1 => ~IsOpen("vcpu_fd")
  /\ released["kvm_fd"] >= 1 => ~IsOpen("vm_fd")

\* vCPU and VM closed in turn, the subsystem fd still open
C19_Witness ==
  /\ pc = "unwind"
  /\ acquired["vcpu_fd"] = 1 /\ released["vcpu_fd"] = 1
  /\ released["vm_fd"] = 1
  /\ IsOpen("kvm_fd")

----------------------------------------------------------------------------
(* kvm_bindings.rs: the #[repr(C)] structures and the ioctl numbers *)

KVMIO == 174

F(name, type, count) == [name |-> name, type |-> type, count |-> count]

KvmUserspaceMemoryRegion ==
  <<F("slot", "u32", 1), F("flags", "u32", 1), F("guest_phys_addr", "u64", 1),
    F("memory_size", "u64", 1), F("userspace_addr", "u64", 1)>>

KvmRegs ==
  <<F("rax", "u64", 1), F("rbx", "u64", 1), F("rcx", "u64", 1), F("rdx", "u64", 1),
    F("rsi", "u64", 1), F("rdi", "u64", 1), F("rsp", "u64", 1), F("rbp", "u64", 1),
    F("r8", "u64", 1), F("r9", "u64", 1), F("r10", "u64", 1), F("r11", "u64", 1),
    F("r12", "u64", 1), F("r13", "u64", 1), F("r14", "u64", 1), F("r15", "u64", 1),
    F("rip", "u64", 1), F("rflags", "u64", 1)>>

KvmSegment ==
  <<F("base", "u64", 1), F("limit", "u32", 1), F("selector", "u16", 1),
    F("type_", "u8", 1), F("present", "u8", 1), F("dpl", "u8", 1), F("db", "u8", 1),
    F("s", "u8", 1), F("l", "u8", 1), F("g", "u8", 1), F("avl", "u8", 1),
    F("unusable", "u8", 1), F("padding", "u8", 1)>>

KvmDtable ==
  <<F("base", "u64", 1), F("limit", "u16", 1), F("padding", "u16", 3)>>

\* a special register block that leaves out cr8
KvmSregs_NoCr8 ==
  <<F("cs", "KvmSegment", 1), F("ds", "KvmSegment", 1), F("es", "KvmSegment", 1),
    F("fs", "KvmSegment", 1), F("gs", "KvmSegment", 1), F("ss", "KvmSegment", 1),
    F("tr", "KvmSegment", 1), F("ldt", "KvmSegment", 1),
    F("gdt", "KvmDtable", 1), F("idt", "KvmDtable", 1),
    F("cr0", "u64", 1), F("cr2", "u64", 1), F("cr3", "u64", 1), F("cr4", "u64", 1),
    F("efer", "u64", 1), F("apic_base", "u64", 1),
    F("interrupt_bitmap", "u64", 4)>>

KvmSregs ==
  <<F("cs", "KvmSegment", 1), F("ds", "KvmSegment", 1), F("es", "KvmSegment", 1),
    F("fs", "KvmSegment", 1), F("gs", "KvmSegment", 1), F("ss", "KvmSegment", 1),
    F("tr", "KvmSegment", 1), F("ldt", "KvmSegment", 1),
    F("gdt", "KvmDtable", 1), F("idt", "KvmDtable", 1),
    F("cr0", "u64", 1), F("cr2", "u64", 1), F("cr3", "u64", 1), F("cr4", "u64", 1),
    F("cr8", "u64", 1), F("efer", "u64", 1), F("apic_base", "u64", 1),
    F("interrupt_bitmap", "u64", 4)>>

StructOf(type) ==
  CASE type = "KvmSegment" -> KvmSegment
    [] type = "KvmDtable" -> KvmDtable

AlignUp(n, a) == ((n + a - 1) \div a) * a

\* std::mem::size_of and align_of under #[repr(C)]: every field at the next
\* multiple of its alignment, the size a multiple of the largest alignment
RECURSIVE SizeOfType(_), AlignOfType(_), EndOfFields(_, _), AlignOfFields(_, _)
SizeOfType(type) ==
  CASE type = "u8" -> 1
    [] type = "u16" -> 2
    [] type = "u32" -> 4
    [] type = "u64" -> 8
    [] OTHER -> AlignUp(EndOfFields(StructOf(type), Len(StructOf(type))),
                        AlignOfFields(StructOf(type), Len(StructOf(type))))
AlignOfType(type) ==
  CASE type \in {"u8", "u16", "u32", "u64"} -> SizeOfType(type)
    [] OTHER -> AlignOfFields(StructOf(type), Len(StructOf(type)))
EndOfFields(fields, k) ==
  IF k = 0 THEN 0
  ELSE AlignUp(EndOfFields(fields, k - 1), AlignOfType(fields[k].type))
         + fields[k].count * SizeOfType(fields[k].type)
AlignOfFields(fields, k) ==
  IF k = 0 THEN 1
  ELSE LET a == AlignOfFields(fields, k - 1)
           b == AlignOfType(fields[k].type)
       IN  IF a >= b THEN a ELSE b

size_of(fields) ==
  AlignUp(EndOfFields(fields, Len(fields)), AlignOfFields(fields, Len(fields)))

\* a | b
RECURSIVE BitOr(_, _)
BitOr(a, b) ==
  IF a = 0 THEN b
  ELSE IF b = 0 THEN a
  ELSE (IF a % 2 = 1 \/ b % 2 = 1 THEN 1 ELSE 0) + 2 * BitOr(a \div 2, b \div 2)

\* (dir << 30) | (size << 16) | (ty << 8) | nr as a c_ulong, kept as its bits
\* from 16 up (hi) and its low 16 bits (lo)
Encode(dir, size, ty, nr) ==
  [hi |-> BitOr(BitOr(BitOr(dir * 16384, size), (ty * 256) \div 65536),
                nr \div 65536),
   lo |-> BitOr((ty * 256) % 65536, nr % 65536)]

\* an _IOW that sets the read bit
IOW_ReadBit(T, ty, nr) == Encode(2, size_of(T), ty, nr)

\* const fn _IO(ty, nr), _IOR<T>(ty, nr), _IOW<T>(ty, nr)
IO(ty, nr) == Encode(0, 0, ty, nr)
IOR(T, ty, nr) == Encode(2, size_of(T), ty, nr)
IOW(T, ty, nr) == Encode(1, size_of(T), ty, nr)

KVM_GET_API_VERSION == IO(KVMIO, 0)
KVM_CREATE_VM == IO(KVMIO, 1)
KVM_GET_VCPU_MMAP_SIZE == IO(KVMIO, 4)
KVM_CREATE_VCPU == IO(KVMIO, 65)
KVM_SET_USER_MEMORY_REGION == IOW(KvmUserspaceMemoryRegion, KVMIO, 70)
KVM_RUN == IO(KVMIO, 128)
KVM_GET_REGS == IOR(KvmRegs, KVMIO, 129)
KVM_SET_REGS == IOW(KvmRegs, KVMIO, 130)
KVM_GET_SREGS == IOR(KvmSregs, KVMIO, 131)
KVM_SET_SREGS == IOW(KvmSregs, KVMIO, 132)

\* the 32-bit number with the 16-bit halves hi and lo
Word(hi, lo) == [hi |-> hi, lo |-> lo]

\* the request of the ioctl that main() issues at each position
Request(p) ==
  CASE p = "Kvm_new" -> KVM_GET_API_VERSION
    [] p = "create_vm" -> KVM_CREATE_VM
    [] p = "set_user_memory_region" -> KVM_SET_USER_MEMORY_REGION
    [] p = "create_vcpu" -> KVM_CREATE_VCPU
    [] p = "get_vcpu_mmap_size" -> KVM_GET_VCPU_MMAP_SIZE
    [] p = "get_sregs" -> KVM_GET_SREGS
    [] p = "set_sregs" -> KVM_SET_SREGS
    [] p = "get_regs" -> KVM_GET_REGS
    [] p = "set_regs" -> KVM_SET_REGS
    [] p = "run" -> KVM_RUN

\* C14: the ten command numbers, as main() issues them, are those of the
\* kernel ABI, with payload sizes 32, 144 and 312: 0xAE00, 0xAE01, 0xAE04,
\* 0xAE41, 0x4020AE46, 0xAE80, 0x8090AE81, 0x4090AE82, 0x8138AE83, 0x4138AE84.
C14_CommandNumbers ==
  /\ pc = "Kvm_new" => Request(pc) = Word(0, 44544)
  /\ pc = "create_vm" => Request(pc) = Word(0, 44545)
  /\ pc = "get_vcpu_mmap_size" => Request(pc) = Word(0, 44548)
  /\ pc = "create_vcpu" => Request(pc) = Word(0, 44609)
  /\ pc = "set_user_memory_region" =>
       /\ size_of(KvmUserspaceMemoryRegion) = 32
       /\ Request(pc) = Word(16416, 44614)
  /\ pc = "run" => Request(pc) = Word(0, 44672)
  /\ pc = "get_regs" => size_of(KvmRegs) = 144 /\ Request(pc) = Word(32912, 44673)
  /\ pc = "set_regs" => size_of(KvmRegs) = 144 /\ Request(pc) = Word(16528, 44674)
  /\ pc = "get_sregs" => size_of(KvmSregs) = 312 /\ Request(pc) = Word(33080, 44675)
  /\ pc = "set_sregs" => size_of(KvmSregs) = 312 /\ Request(pc) = Word(16696, 44676)

\* every one of the ten commands has been issued: the setup is done and a
\* run() has returned
C14_Witness ==
  /\ pc = "dispatch"
  /\ run_ok = 1
  /\ acquired["vcpu_fd"] = 1

\* the types and counts of the fields of a structure, in order
Shape(fields) == [i \in 1..Len(fields) |-> <<fields[i].type, fields[i].count>>]
Names(fields) == [i \in 1..Len(fields) |-> fields[i].name]
Repeat(x, n) == [i \in 1..n |-> x]

SegmentShape ==
  <<<<"u64", 1>>, <<"u32", 1>>, <<"u16", 1>>>> \o Repeat(<<"u8", 1>>, 10)
DtableShape == <<<<"u64", 1>>, <<"u16", 1>>, <<"u16", 3>>>>

\* C15, as stated: the special register block that get_sregs and set_sregs
\* pass to the kernel is 6 segment descriptors, 2 descriptor-table
\* registers, 4 control registers, EFER, APIC base and a
\* 4 x u64 interrupt bitmap, and has the size of these.
C15_SregsSixSegmentsFourControl ==
  pc \in {"get_sregs", "set_sregs"} =>
  /\ Shape(KvmSegment) = SegmentShape
  /\ Shape(KvmDtable) = DtableShape
  /\ Shape(KvmSregs) =
       Repeat(<<"KvmSegment", 1>>, 6) \o Repeat(<<"KvmDtable", 1>>, 2)
         \o Repeat(<<"u64", 1>>, 4) \o <<<<"u64", 1>>, <<"u64", 1>>, <<"u64", 4>>>>
  /\ size_of(KvmSregs) = 6 * 24 + 2 * 16 + 4 * 8 + 8 + 8 + 4 * 8

\* C15, amended: the special register block that get_sregs and set_sregs
\* pass to the kernel is 8 segment descriptors (cs, ds,
\* es, fs, gs, ss, tr, ldt), 2 descriptor-table registers (gdt, idt), 5
\* control registers (cr0, cr2, cr3, cr4, cr8), EFER, APIC base and a 4 x u64
\* interrupt bitmap, in this order; a segment descriptor is 24 bytes, a
\* descriptor-table register 16, the block 312.
C15_SregsLayout ==
  pc \in {"get_sregs", "set_sregs"} =>
  /\ Shape(KvmSegment) = SegmentShape
  /\ Shape(KvmDtable) = DtableShape
  /\ size_of(KvmSegment) = 24
  /\ size_of(KvmDtable) = 16
  /\ Shape(KvmSregs) =
       Repeat(<<"KvmSegment", 1>>, 8) \o Repeat(<<"KvmDtable", 1>>, 2)
         \o Repeat(<<"u64", 1>>, 5) \o <<<<"u64", 1>>, <<"u64", 1>>, <<"u64", 4>>>>
  /\ Names(KvmSregs) =
       <<"cs", "ds", "es", "fs", "gs", "ss", "tr", "ldt", "gdt", "idt",
         "cr0", "cr2", "cr3", "cr4", "cr8", "efer", "apic_base", "interrupt_bitmap">>
  /\ size_of(KvmSregs) = 8 * 24 + 2 * 16 + 5 * 8 + 8 + 8 + 4 * 8
  /\ size_of(KvmSregs) = 312

\* the block has been read from the vCPU and written back to it
C15_Witness ==
  /\ pc = "get_regs"
  /\ vcpu_sregs = sregs
  /\ sregs.cs_limit = cs_limit

----------------------------------------------------------------------------
(* What the monitor writes, and when *)

\* C16: an Io exit, IN or OUT and however many exits came before, takes the
\* loop on to the next run(); between reading it and issuing that run() the
\* monitor writes neither the control page, nor guest memory, nor the vCPU's
\* registers.
C16_IoContinues ==
  [][/\ (pc = "dispatch" /\ kvm_run.exit_reason = KVM_EXIT_IO) =>
          /\ state' = "Continue"
          /\ pc' = "run"
          /\ UNCHANGED <<kvm_run, code, slots, vcpu_regs, vcpu_sregs>>
     /\ (pc = "run" /\ state = "Continue") =>
          /\ pc' = "in_run"
          /\ UNCHANGED <<kvm_run, code, slots, vcpu_regs, vcpu_sregs>>]_vars

\* an Io IN as the 11th exit, and the 12th run() issued after it
C16_Witness ==
  /\ pc = "in_run"
  /\ Len(exits) = GuardBound + 1
  /\ exits[Len(exits)].exit_reason = KVM_EXIT_IO
  /\ exits[Len(exits)].printed.direction = KVM_EXIT_IO_IN
  /\ runs = GuardBound + 2

\* C17: the first run() is issued only with the guest code in the mapped
\* block, the block registered with the open VM, the vCPU created, the
\* control page mapped and the special and general registers set, each of
\* these done only after the ones it depends on; from the first run() on the
\* monitor writes neither guest memory nor registers (the registers change
\* only inside KVM_RUN).
C17_SetupBeforeFirstRun ==
  /\ [](/\ slots # {} =>
             /\ acquired["guest_memory"] = 1 /\ acquired["vm_fd"] = 1
             /\ \A i \in 1..MemWindow : i <= Len(GuestCode) => code[i] = GuestCode[i]
        /\ acquired["vcpu_fd"] = 1 => slots # {}
        /\ acquired["control_page"] = 1 => acquired["vcpu_fd"] = 1 /\ vcpu_mmap_size > 0
        /\ SetupDone(10) => acquired["control_page"] = 1
        /\ SetupDone(12) => SetupDone(10))
  /\ [][/\ (runs = 0 /\ runs' = 1) =>
             /\ IsOpen("guest_memory") /\ IsOpen("vm_fd") /\ IsOpen("vcpu_fd")
             /\ IsOpen("control_page")
             /\ \A i \in 1..MemWindow : i <= Len(GuestCode) => code[i] = GuestCode[i]
             /\ \E s \in slots : /\ s.guest_phys_addr = guest_phys_addr
                                 /\ s.memory_size = mem_size
                                 /\ s.userspace_addr = "guest_memory"
             /\ SetupDone(10)
             /\ vcpu_regs.rip = initial_rip /\ vcpu_regs.rsp = initial_rsp
             /\ vcpu_regs.rflags = initial_rflags
        /\ runs > 0 =>
             /\ UNCHANGED <<code, slots, vcpu_sregs, sregs, regs>>
             /\ (vcpu_regs' # vcpu_regs => pc = "in_run")]_vars

\* the guest has run and changed its registers; the monitor's own copy is
\* still what it set
C17_Witness ==
  /\ runs = 2
  /\ pc = "dispatch"
  /\ vcpu_regs # regs
  /\ regs.rip = initial_rip

----------------------------------------------------------------------------
(* The length of the control page's mapping *)

\* C18: the control page is mapped with exactly the size that
\* KVM_GET_VCPU_MMAP_SIZE returned, the mmap is attempted only after that
\* query succeeded, and the munmap is given the same size.
C18_MappedWithQueriedSize ==
  /\ pc = "map_run" => vcpu_mmap_size \in MmapSizes
  /\ run_mapping.mmap_len # 0 =>
       /\ vcpu_mmap_size \in MmapSizes
       /\ run_mapping.mmap_len = vcpu_mmap_size
  /\ acquired["control_page"] = 1 => run.size = run_mapping.mmap_len
  /\ released["control_page"] = 1 =>
       /\ acquired["control_page"] = 1
       /\ run_mapping.munmap_len = run_mapping.mmap_len
  /\ run_mapping.munmap_len # 0 => released["control_page"] = 1

\* a control page of three pages, mapped and unmapped again
C18_Witness ==
  /\ released["control_page"] = 1
  /\ run_mapping = [mmap_len |-> 12288, munmap_len |-> 12288]
  /\ vcpu_mmap_size = 12288

----------------------------------------------------------------------------
(* Handles and mappings are used only while they are live *)

\* the resource that the operation issued at position p works on
UsedAt(p) ==
  CASE p \in {"create_vm", "get_vcpu_mmap_size"} -> {"kvm_fd"}
    [] p \in {"set_user_memory_region", "create_vcpu"} -> {"vm_fd"}
    [] p \in {"map_run", "get_sregs", "set_sregs", "get_regs", "set_regs",
              "run", "in_run"} -> {"vcpu_fd"}
    [] p = "load_code" -> {"guest_memory"}
    [] p = "dispatch" -> {"control_page"}
    [] OTHER -> {}

\* C20: no resource is used after its release: run() and the register
\* get/set are issued only while the vCPU fd is open, the control page is
\* read only while mapped, guest memory is written only while mapped, and
\* create_vm, the mmap-size query, create_vcpu and set_user_memory_region
\* are issued only while the fd they go to is open; once anything has been
\* released, main is on its way out and issues no operation any more.
C20_NoUseAfterRelease ==
  /\ \A r \in UsedAt(pc) : IsOpen(r)
  /\ \A r \in Resources : released[r] <= acquired[r]
  /\ (\E r \in Resources : released[r] > 0) => pc \in {"unwind", "exited"}

\* the control page being read in the loop with all five resources live
C20_Witness ==
  /\ pc = "dispatch"
  /\ exit_count = 2
  /\ \A r \in Resources : IsOpen(r)
  /\ scope = <<"kvm", "vm", "guest_memory", "vcpu", "run">>

====
